---- MODULE Spec2Model ----
(***************************************************************************)
(* Role-based access control engine (gatesmith): the permission-token      *)
(* codec, the role store with its runtime update, inheritance resolution,  *)
(* the decision procedure (can) and the explanation procedure (canExplain).*)
(*                                                                         *)
(* Strings of the token mini-language are modelled as sequences of atoms:  *)
(* the separator characters ":" and "|", and words (non-empty runs of      *)
(* other characters, each an indivisible atom).  "update:own|true" is      *)
(* <<"update", ":", "own", "|", "true">>, the empty string is <<>>.  Two   *)
(* strings are equal iff their sequences are equal.  JavaScript objects    *)
(* with optional properties are records whose DOMAIN holds exactly the     *)
(* properties that are set.                                                *)
(***************************************************************************)
EXTENDS Naturals, Sequences, FiniteSets, TLC

VARIABLES
    rolesConfig,  \* the role store
    pc,           \* "idle", or "running" while a traversal call is under way
    startRole,    \* the role the running traversal started from
    travQueue,    \* role names the running traversal has still to look at
    travSeen,     \* role names the running traversal has visited
    visits,       \* per role name, how often the running traversal visited it
    validatorOutcome,  \* what the caller's validator function returns now
    validatorCalls,    \* how often the validator function has been invoked
    valToken,          \* the token the last call of val returned, <<>> if none
    valOutcomeAtCall,  \* what the validator returned when valToken was built
    lastQuery          \* the query under way with what it returns, or NoQuery

vars == <<rolesConfig, pc, startRole, travQueue, travSeen, visits,
          validatorOutcome, validatorCalls, valToken, valOutcomeAtCall,
          lastQuery>>

\* no query is under way
NoQuery == [op |-> "none"]

validation == <<validatorOutcome, validatorCalls, valToken, valOutcomeAtCall>>

traversal == <<pc, startRole, travQueue, travSeen, visits>>

\* ------------------------------------------------------------- universes

\* Number of distinct user ids handed to own() and group().
NumUsers == 2

\* a traversal is cut off once it has visited one role name this often
MaxVisits == 2

\* longest list of tokens handed to can / canExplain
MaxListLen == 2

\* length of the strings handed to the token codec, in words and separators
MaxTokenLen == 4

\* calls of val that a behaviour makes
MaxValidatorCalls == 2

UserIds == 1..NumUsers

RoleNames == {"admin", "editor", "user"}

Resources == {"posts", "users"}

COLON == ":"

PIPE == "|"

WILDCARD_PERMISSION == <<"*">>

\* ------------------------------------------------------ string helpers

\* String.prototype.includes / Array.prototype.includes
includes(s, x) ==
    \E i \in 1..Len(s) : s[i] = x

indexOf(s, x) ==
    CHOOSE i \in 1..Len(s) : s[i] = x /\ \A j \in 1..(i - 1) : s[j] # x

\* String.prototype.split(sep): the sequence of the parts between separators
RECURSIVE split(_, _)
split(s, sep) ==
    IF ~includes(s, sep)
    THEN <<s>>
    ELSE LET i == indexOf(s, sep)
         IN <<SubSeq(s, 1, i - 1)>> \o split(SubSeq(s, i + 1, Len(s)), sep)

\* JavaScript truthiness of an optional string property: set and non-empty
Truthy(obj, f) ==
    f \in DOMAIN obj /\ obj[f] # <<>>

\* obj1[f] === obj2[f] for optional properties (undefined === undefined)
SameProp(obj1, obj2, f) ==
    IF f \in DOMAIN obj1
    THEN f \in DOMAIN obj2 /\ obj1[f] = obj2[f]
    ELSE f \notin DOMAIN obj2

\* `${b}` for a boolean b
boolStr(b) ==
    IF b THEN <<"true">> ELSE <<"false">>

\* [...new Set(list)]: first occurrences, in order
\* a de-duplication that keeps every element
uniq_KeepsDuplicates(list) ==
    list

RECURSIVE uniq(_)
uniq(list) ==
    IF list = <<>>
    THEN <<>>
    ELSE LET front == uniq(SubSeq(list, 1, Len(list) - 1))
             last == list[Len(list)]
         IN IF includes(front, last) THEN front ELSE Append(front, last)

\* ------------------------------------------------------- token helpers

\* own() that never compares the two ids
own_IgnoresOwner(action, userId, resourceOwnerId) ==
    LET isOwner == (userId = userId)
    IN action \o <<COLON, "own", PIPE>> \o boolStr(isOwner)

own(action, userId, resourceOwnerId) ==
    LET isOwner == (userId = resourceOwnerId)
    IN action \o <<COLON, "own", PIPE>> \o boolStr(isOwner)

group(action, userId, groupMemberIds) ==
    LET isMember == (userId \in groupMemberIds)
    IN action \o <<COLON, "group", PIPE>> \o boolStr(isMember)

\* a val that leaves the evaluation to the engine: the token carries no result
val_Deferred(action, isValid) ==
    action \o <<COLON, "val">>

\* the validator is called once; isValid is what that call returned
val(action, isValid) ==
    action \o <<COLON, "val", PIPE>> \o boolStr(isValid)

parsePermission(permission) ==
    IF includes(permission, PIPE)
    THEN LET parts == split(permission, PIPE)
             actionPart == parts[1]
             resultPart == parts[2]
         IN IF includes(actionPart, COLON)
            THEN LET ap == split(actionPart, COLON)
                 IN [action |-> ap[1], ownership |-> ap[2],
                     comparisonResult |-> resultPart]
            ELSE [action |-> actionPart, comparisonResult |-> resultPart]
    ELSE IF includes(permission, COLON)
         THEN LET ap == split(permission, COLON)
              IN [action |-> ap[1], ownership |-> ap[2]]
         ELSE [action |-> permission]

\* ----------------------------------------------------------- role store

\* RoleConfig: [name?, permissions, inherits?]; rolesConfig maps the names of
\* the roles that are present to their RoleConfig.

\* property names that every plain JavaScript object inherits from
\* Object.prototype; the store is such an object, and the code reads it with
\* this.rolesConfig[roleName]
PrototypeNames == {"constructor"}

\* what this.rolesConfig[roleName] yields: the role configuration stored
\* under the name ("own"), else the member inherited from Object.prototype
\* (a function object, truthy, without `permissions`), else undefined
lookupKind(cfg, roleName) ==
    IF roleName \in DOMAIN cfg
    THEN "own"
    ELSE IF roleName \in PrototypeNames
         THEN "inherited"
         ELSE "undefined"

\* the `name` property of the inherited member: Object.prototype.constructor
\* is the function Object
inheritedMemberName(roleName) ==
    "Object"

\* getRolePermissions(roleName, resource) raises a TypeError: the lookup is
\* truthy, so line 576 does not return, and roleDefinition.permissions is
\* undefined when line 587 indexes it
getRolePermissionsRaises(cfg, roleName, resource) ==
    /\ lookupKind(cfg, roleName) = "inherited"
    /\ resource # ""

getRoles(cfg) ==
    DOMAIN cfg

getName(cfg, roleName) ==
    IF lookupKind(cfg, roleName) = "undefined"
    THEN roleName
    ELSE IF lookupKind(cfg, roleName) = "inherited"
    THEN inheritedMemberName(roleName)
    ELSE LET roleConfig == cfg[roleName]
         IN IF "name" \in DOMAIN roleConfig /\ roleConfig.name # ""
            THEN roleConfig.name
            ELSE roleName

\* getRolePermissions that returns the role's tokens of every resource
getRolePermissions_IgnoresResource(cfg, roleName, resource) ==
    IF roleName \notin DOMAIN cfg
    THEN <<>>
    ELSE LET table == cfg[roleName].permissions
         IN (IF "posts" \in DOMAIN table THEN table["posts"] ELSE <<>>)
            \o (IF "users" \in DOMAIN table THEN table["users"] ELSE <<>>)

\* direct tokens of one role for one resource, for the calls that return
\* (see getRolePermissionsRaises)
getRolePermissions(cfg, roleName, resource) ==
    IF roleName \notin DOMAIN cfg
    THEN <<>>
    ELSE LET roleDefinition == cfg[roleName]
         IN IF resource = ""
            THEN <<>>
            ELSE IF resource \in DOMAIN roleDefinition.permissions
                 THEN roleDefinition.permissions[resource]
                 ELSE <<>>

\* one role entry of updateRoles' merge loop: `existing` is
\* this.rolesConfig[roleName] as read inside the loop, `incoming` is
\* newRoles[roleName]; the result is the object the store holds afterwards
mergeRole(existing, incoming) ==
    LET named ==
            IF ~("name" \in DOMAIN incoming /\ incoming.name # "")
               /\ ("name" \in DOMAIN existing /\ existing.name # "")
            THEN [f \in DOMAIN incoming \cup {"name"} |->
                    IF f = "name" THEN existing.name ELSE incoming[f]]
            ELSE incoming
        perms ==
            [res \in DOMAIN incoming.permissions \cup DOMAIN existing.permissions |->
                IF res \in DOMAIN existing.permissions
                THEN IF res \in DOMAIN incoming.permissions
                     THEN uniq(existing.permissions[res] \o incoming.permissions[res])
                     ELSE existing.permissions[res]
                ELSE incoming.permissions[res]]
    IN [named EXCEPT !.permissions = perms]

\* an updateRoles that takes the replace branch whatever the flag
updateRoles_AlwaysReplaces(cfg, newRoles, merge) ==
    newRoles

\* an updateRoles whose merge keeps, per role and resource, the tokens that
\* exactly one of the old and the new list holds
updateRoles_SymmetricDifference(cfg, newRoles, merge) ==
    IF merge
    THEN [r \in DOMAIN cfg \cup DOMAIN newRoles |->
            IF r \in DOMAIN newRoles /\ r \in DOMAIN cfg
            THEN [newRoles[r] EXCEPT !.permissions =
                    [res \in DOMAIN newRoles[r].permissions |->
                        LET new == newRoles[r].permissions[res]
                            old == getRolePermissions(cfg, r, res)
                        IN SelectSeq(uniq(old), LAMBDA t : ~includes(new, t))
                           \o SelectSeq(uniq(new), LAMBDA t : ~includes(old, t))]]
            ELSE IF r \in DOMAIN newRoles THEN newRoles[r] ELSE cfg[r]]
    ELSE newRoles

\* updateRoles(newRoles, merge): the store after the call.  The spread
\* assignment of lines 87-90 runs first, so inside the loop
\* this.rolesConfig[roleName] already is the object newRoles[roleName].
updateRoles(cfg, newRoles, merge) ==
    IF merge
    THEN LET spread == [r \in DOMAIN cfg \cup DOMAIN newRoles |->
                            IF r \in DOMAIN newRoles THEN newRoles[r] ELSE cfg[r]]
         IN [r \in DOMAIN spread |->
                IF r \in DOMAIN newRoles
                THEN mergeRole(spread[r], newRoles[r])
                ELSE spread[r]]
    ELSE newRoles

\* ------------------------------------------------ inheritance resolver
\* The resolver is specified behaviour: the traversal with a seen-set that
\* the inheritance tests exercise (multi-level, multiple parents, cycles).

getParentRoles(cfg, roleName) ==
    IF roleName \in DOMAIN cfg /\ "inherits" \in DOMAIN cfg[roleName]
    THEN cfg[roleName].inherits
    ELSE <<>>

\* traversal from `queue`, visiting each role name once (seen-set), adding
\* the direct tokens of every visited role and enqueuing its parents
RECURSIVE collectPermissions(_, _, _, _, _)
collectPermissions(cfg, resource, queue, seen, acc) ==
    IF queue = <<>>
    THEN acc
    ELSE LET roleName == Head(queue)
         IN IF roleName \in seen
            THEN collectPermissions(cfg, resource, Tail(queue), seen, acc)
            ELSE collectPermissions(cfg, resource,
                     Tail(queue) \o getParentRoles(cfg, roleName),
                     seen \cup {roleName},
                     uniq(acc \o getRolePermissions(cfg, roleName, resource)))

\* own plus inherited tokens of a role for a resource, without duplicates
getAllPermissions(cfg, roleName, resource) ==
    collectPermissions(cfg, resource, <<roleName>>, {}, <<>>)

\* role names reached from `queue` over parent edges
RECURSIVE reachableRoles(_, _, _)
reachableRoles(cfg, queue, seen) ==
    IF queue = <<>>
    THEN seen
    ELSE LET roleName == Head(queue)
         IN IF roleName \in seen
            THEN reachableRoles(cfg, Tail(queue), seen)
            ELSE reachableRoles(cfg, Tail(queue) \o getParentRoles(cfg, roleName),
                                seen \cup {roleName})

\* a traversal step that does not consult the seen-set
traverseStep_NoSeenSet(cfg, q, s) ==
    LET roleName == Head(q)
    IN [queue |-> Tail(q) \o getParentRoles(cfg, roleName),
        seen |-> s \cup {roleName},
        visited |-> {roleName}]

\* one step of the traversal shared by getAllPermissions and inheritsFrom:
\* take the head of the queue; skip it if seen, else visit it (mark it seen,
\* enqueue its parents).  `visited` holds the role name visited, if any.
traverseStep(cfg, q, s) ==
    LET roleName == Head(q)
    IN IF roleName \in s
       THEN [queue |-> Tail(q), seen |-> s, visited |-> {}]
       ELSE [queue |-> Tail(q) \o getParentRoles(cfg, roleName),
             seen |-> s \cup {roleName},
             visited |-> {roleName}]

\* inheritsFrom without the test that the ancestor is a role of the store
inheritsFrom_AnyNamedParent(cfg, roleName, ancestorName) ==
    /\ roleName \in DOMAIN cfg
    /\ ancestorName \in reachableRoles(cfg, <<roleName>>, {})

inheritsFrom(cfg, roleName, ancestorName) ==
    /\ roleName \in DOMAIN cfg
    /\ ancestorName \in DOMAIN cfg
    /\ ancestorName \in reachableRoles(cfg, <<roleName>>, {})

\* ------------------------------------------------------ decision engine

\* the callback without the comparison of the two qualifiers
matchesPermission_IgnoresQualifier(p, action, parsed) ==
    IF p = WILDCARD_PERMISSION
    THEN TRUE
    ELSE LET parsedP == parsePermission(p)
         IN IF parsedP.action # action
            THEN FALSE
            ELSE IF ~Truthy(parsed, "ownership") /\ Truthy(parsedP, "ownership")
                 THEN FALSE
                 ELSE TRUE

\* the callback without the test that rejects a qualified grant for an
\* unqualified request
matchesPermission_AcceptsQualifiedGrant(p, action, parsed) ==
    IF p = WILDCARD_PERMISSION
    THEN TRUE
    ELSE LET parsedP == parsePermission(p)
         IN IF parsedP.action # action
            THEN FALSE
            ELSE IF /\ Truthy(parsed, "ownership")
                    /\ Truthy(parsedP, "ownership")
                    /\ parsed.ownership # parsedP.ownership
                 THEN FALSE
                 ELSE TRUE

\* the callback without the comparison of the two actions
matchesPermission_IgnoresAction(p, action, parsed) ==
    IF p = WILDCARD_PERMISSION
    THEN TRUE
    ELSE LET parsedP == parsePermission(p)
         IN IF ~Truthy(parsed, "ownership") /\ Truthy(parsedP, "ownership")
            THEN FALSE
            ELSE IF /\ Truthy(parsed, "ownership")
                    /\ Truthy(parsedP, "ownership")
                    /\ parsed.ownership # parsedP.ownership
                 THEN FALSE
                 ELSE TRUE

\* the callback of permissions.some(...) in checkSinglePermission
matchesPermission(p, action, parsed) ==
    IF p = WILDCARD_PERMISSION
    THEN TRUE
    ELSE LET parsedP == parsePermission(p)
         IN IF parsedP.action # action
            THEN FALSE
            ELSE IF ~Truthy(parsed, "ownership") /\ Truthy(parsedP, "ownership")
                 THEN FALSE
                 ELSE IF /\ Truthy(parsed, "ownership")
                         /\ Truthy(parsedP, "ownership")
                         /\ parsed.ownership # parsedP.ownership
                      THEN FALSE
                      ELSE TRUE

\* a wildcard branch that returns true at once
wildcardDecision_Unconditional(parsed) ==
    TRUE

\* a wildcard branch that grants only a request carrying a qualifier
wildcardDecision_RequiresQualifier(parsed) ==
    IF ~Truthy(parsed, "ownership")
    THEN FALSE
    ELSE IF "comparisonResult" \in DOMAIN parsed
         THEN parsed.comparisonResult = <<"true">>
         ELSE TRUE

\* a wildcard branch that denies a qualifier without result
wildcardDecision_NoDefault(parsed) ==
    IF ~Truthy(parsed, "ownership")
    THEN TRUE
    ELSE IF "comparisonResult" \in DOMAIN parsed
         THEN parsed.comparisonResult = <<"true">>
         ELSE FALSE

\* the wildcard branch of checkSinglePermission
wildcardDecision(parsed) ==
    IF ~Truthy(parsed, "ownership")
    THEN TRUE
    ELSE IF "comparisonResult" \in DOMAIN parsed
         THEN parsed.comparisonResult = <<"true">>
         ELSE TRUE

\* a general-permission test that still looks at the comparison result
hasGeneralPermission_OnlyWhenPassed(permissions, parsed) ==
    /\ Truthy(parsed, "ownership")
    /\ includes(permissions, parsed.action)
    /\ \/ "comparisonResult" \notin DOMAIN parsed
       \/ parsed.comparisonResult = <<"true">>

\* the general-permission test of checkSinglePermission: a qualified request
\* and the bare action among the tokens
hasGeneralPermission(permissions, parsed) ==
    Truthy(parsed, "ownership") /\ includes(permissions, parsed.action)

\* a last step that denies a qualifier without result
resultDecision_RequiresResult(parsed) ==
    IF "comparisonResult" \in DOMAIN parsed
    THEN parsed.comparisonResult = <<"true">>
    ELSE ~Truthy(parsed, "ownership")

\* the last step of checkSinglePermission, once a token has matched
resultDecision(parsed) ==
    IF "comparisonResult" \in DOMAIN parsed
    THEN parsed.comparisonResult = <<"true">>
    ELSE TRUE

\* the decision of checkSinglePermission on the token list of (role, resource)
decide(permissions, permission) ==
    LET parsed == parsePermission(permission)
        action == parsed.action
    IN IF includes(permissions, WILDCARD_PERMISSION)
       THEN wildcardDecision(parsed)
       ELSE IF hasGeneralPermission(permissions, parsed)
            THEN TRUE
            ELSE LET hasPermission ==
                         \E i \in 1..Len(permissions) :
                             matchesPermission(permissions[i], action, parsed)
                 IN IF ~hasPermission
                    THEN FALSE
                    ELSE resultDecision(parsed)

\* checkSinglePermission: the token list it decides on is the resolved one,
\* own tokens followed by the inherited ones
checkSinglePermission(cfg, roleName, permission, resource) ==
    decide(getAllPermissions(cfg, roleName, resource), permission)

\* can(roleName, permission, resource) for a single token
can(cfg, roleName, permission, resource) ==
    checkSinglePermission(cfg, roleName, permission, resource)

\* a can on a list that looks at the first token only
canAny_FirstOnly(cfg, roleName, permissions, resource) ==
    /\ permissions # <<>>
    /\ checkSinglePermission(cfg, roleName, Head(permissions), resource)

\* can(roleName, permissions, resource) for a list of tokens:
\* permissions.some(...), left to right, stopping at the first true
RECURSIVE canAny(_, _, _, _)
canAny(cfg, roleName, permissions, resource) ==
    IF permissions = <<>>
    THEN FALSE
    ELSE IF checkSinglePermission(cfg, roleName, Head(permissions), resource)
         THEN TRUE
         ELSE canAny(cfg, roleName, Tail(permissions), resource)

\* has(roleName, permission, resource): the matching rules of the decision
\* (wildcard, general permission, token match) on the resolved token list,
\* without the evaluation of a comparison result
has(cfg, roleName, permission, resource) ==
    LET parsed == parsePermission(permission)
        permissions == getAllPermissions(cfg, roleName, resource)
    IN \/ includes(permissions, WILDCARD_PERMISSION)
       \/ hasGeneralPermission(permissions, parsed)
       \/ \E i \in 1..Len(permissions) :
              matchesPermission(permissions[i], parsed.action, parsed)

\* hasWildcardPermission over the resolved token list of (role, resource)
hasWildcardPermission(cfg, roleName, resource) ==
    includes(getAllPermissions(cfg, roleName, resource), WILDCARD_PERMISSION)

\* -------------------------------------------------- explanation builder

\* an explanation object; `ownership` is set iff the request parsed to one
explanation(granted, reason, roleName, resource, action, parsed, withOwnership) ==
    LET base == [granted |-> granted, reason |-> reason, role |-> roleName,
                 resource |-> resource, action |-> action]
    IN IF withOwnership /\ "ownership" \in DOMAIN parsed
       THEN [f \in DOMAIN base \cup {"ownership"} |->
                IF f = "ownership" THEN parsed.ownership ELSE base[f]]
       ELSE base

\* the callback of permissions.filter(...) in explainSinglePermission
isMatchingPermission(p, action, parsed) ==
    LET parsedP == parsePermission(p)
    IN \/ /\ parsedP.action = action
          /\ ~Truthy(parsedP, "ownership")
          /\ ~Truthy(parsed, "ownership")
       \/ /\ parsedP.action = action
          /\ SameProp(parsedP, parsed, "ownership")

\* the callback of permissions.some(...) in explainSinglePermission
isOwnershipPermission(p, action) ==
    LET parsedP == parsePermission(p)
    IN parsedP.action = action /\ Truthy(parsedP, "ownership")

\* explainSinglePermission, on the same resolved token list
explainSinglePermission(cfg, roleName, permission, resource) ==
    IF roleName \notin DOMAIN cfg
    THEN explanation(FALSE, "ROLE_NOT_FOUND", roleName, resource, permission,
                     [action |-> permission], FALSE)
    ELSE
    LET parsed == parsePermission(permission)
        action == parsed.action
        permissions == getAllPermissions(cfg, roleName, resource)
        expl(granted, reason, withOwnership) ==
            explanation(granted, reason, roleName, resource, action, parsed,
                        withOwnership)
    IN
    IF Len(permissions) = 0
    THEN expl(FALSE, "RESOURCE_NOT_ALLOWED", TRUE)
    ELSE IF includes(permissions, WILDCARD_PERMISSION)
    THEN IF ~Truthy(parsed, "ownership")
         THEN expl(TRUE, "WILDCARD_PERMISSION", FALSE)
         ELSE IF "comparisonResult" \in DOMAIN parsed
              THEN IF parsed.comparisonResult = <<"true">>
                   THEN expl(TRUE, "WILDCARD_WITH_OWNERSHIP", TRUE)
                   ELSE expl(FALSE, "OWNERSHIP_CHECK_FAILED", TRUE)
              ELSE expl(TRUE, "WILDCARD_WITH_OWNERSHIP_DEFAULT", TRUE)
    ELSE IF Truthy(parsed, "ownership") /\ includes(permissions, action)
    THEN expl(TRUE, "GENERIC_PERMISSION_WITH_OWNERSHIP", TRUE)
    ELSE
    LET matchingPermissions ==
            {i \in 1..Len(permissions) :
                isMatchingPermission(permissions[i], action, parsed)}
        hasOwnershipPermissions ==
            \E i \in 1..Len(permissions) :
                isOwnershipPermission(permissions[i], action)
    IN
    IF matchingPermissions = {}
    THEN IF ~Truthy(parsed, "ownership") /\ hasOwnershipPermissions
         THEN expl(FALSE, "REQUIRES_OWNERSHIP", TRUE)
         ELSE expl(FALSE, "ACTION_NOT_ALLOWED", TRUE)
    ELSE IF Truthy(parsed, "ownership") /\ "comparisonResult" \in DOMAIN parsed
    THEN IF parsed.comparisonResult = <<"true">>
         THEN expl(TRUE, "PERMISSION_WITH_OWNERSHIP", TRUE)
         ELSE expl(FALSE, "OWNERSHIP_CHECK_FAILED", TRUE)
    ELSE IF Truthy(parsed, "ownership")
    THEN expl(TRUE, "PERMISSION_WITH_OWNERSHIP_DEFAULT", TRUE)
    ELSE expl(TRUE, "PERMISSION_GRANTED", TRUE)

\* a canExplain that reads each role's direct token list, without parents
canExplain_DirectListOnly(cfg, roleName, permission, resource) ==
    explainSinglePermission(
        [r \in DOMAIN cfg |-> [permissions |-> cfg[r].permissions]],
        roleName, permission, resource)

\* a canExplain that reports the default-true wildcard grant as a passed
\* wildcard ownership check
canExplain_NoWildcardDefaultReason(cfg, roleName, permission, resource) ==
    LET e == explainSinglePermission(cfg, roleName, permission, resource)
    IN IF e.reason = "WILDCARD_WITH_OWNERSHIP_DEFAULT"
       THEN [e EXCEPT !.reason = "WILDCARD_WITH_OWNERSHIP"]
       ELSE e

\* canExplain(roleName, permission, resource) for a single token
canExplain(cfg, roleName, permission, resource) ==
    explainSinglePermission(cfg, roleName, permission, resource)

\* a canExplain on a list that stops after the first granted token
RECURSIVE canExplainAll_StopsAtGranted(_, _, _, _)
canExplainAll_StopsAtGranted(cfg, roleName, permissions, resource) ==
    IF permissions = <<>>
    THEN <<>>
    ELSE LET first == explainSinglePermission(cfg, roleName, Head(permissions),
                                              resource)
         IN IF first.granted
            THEN <<first>>
            ELSE <<first>> \o canExplainAll_StopsAtGranted(cfg, roleName,
                                  Tail(permissions), resource)

\* canExplain(roleName, permissions, resource) for a list of tokens:
\* permissions.map(...)
RECURSIVE canExplainAll(_, _, _, _)
canExplainAll(cfg, roleName, permissions, resource) ==
    IF permissions = <<>>
    THEN <<>>
    ELSE <<explainSinglePermission(cfg, roleName, Head(permissions), resource)>>
         \o canExplainAll(cfg, roleName, Tail(permissions), resource)

\* ------------------------------------------------------- configurations

tUpdate == <<"update">>

tRead == <<"read">>

tUpdateOwn == <<"update", COLON, "own">>

tUpdateGroup == <<"update", COLON, "group">>

\* the `permissions` tables a role configuration may carry
PermissionTables ==
    { "posts" :> <<tUpdate>>,
      "posts" :> <<tUpdateOwn>>,
      "posts" :> <<WILDCARD_PERMISSION>>,
      ("posts" :> <<tUpdateGroup, tRead, tRead>>) @@ ("users" :> <<tUpdate>>),
      "users" :> <<WILDCARD_PERMISSION>> }

\* role configurations with an `inherits` list: a single parent, two parents
\* (diamonds), and lists that close self-loops and cycles
ChildConfigs ==
    { [permissions |-> "posts" :> <<tUpdateOwn>>, inherits |-> <<"user">>],
      [permissions |-> "posts" :> <<WILDCARD_PERMISSION>>,
       inherits |-> <<"editor", "user">>],
      [permissions |-> "posts" :> <<WILDCARD_PERMISSION>>,
       inherits |-> <<"admin">>],
      [permissions |-> "users" :> <<WILDCARD_PERMISSION>>,
       inherits |-> <<"admin">>] }

RoleConfigs ==
    {[permissions |-> p] : p \in PermissionTables}
    \cup ChildConfigs
    \cup {[name |-> "Administrator", permissions |-> "posts" :> <<tUpdate>>]}

\* the configurations handed to the constructor
InitialConfigs ==
    UNION {[D -> RoleConfigs] : D \in SUBSET RoleNames}

\* the partial configurations handed to updateRoles: one role per call
PartialConfigs ==
    {r :> c : r \in RoleNames, c \in RoleConfigs}

\* ------------------------------------------------------- state machine

\* new RBAC(roles)
Init ==
    /\ rolesConfig \in InitialConfigs
    /\ pc = "idle"
    /\ startRole = ""
    /\ travQueue = <<>>
    /\ travSeen = {}
    /\ visits = [r \in RoleNames |-> 0]
    /\ validatorOutcome = TRUE
    /\ validatorCalls = 0
    /\ valToken = <<>>
    /\ valOutcomeAtCall = TRUE
    /\ lastQuery = NoQuery

\* rbac.updateRoles(newRoles) and rbac.updateRoles(newRoles, true)
UpdateRolesMerge ==
    /\ pc = "idle"
    /\ \E newRoles \in PartialConfigs :
           rolesConfig' = updateRoles(rolesConfig, newRoles, TRUE)
    /\ UNCHANGED <<traversal, validation, lastQuery>>

\* rbac.updateRoles(newRoles, false)
UpdateRolesReplace ==
    /\ pc = "idle"
    /\ \E newRoles \in PartialConfigs :
           rolesConfig' = updateRoles(rolesConfig, newRoles, FALSE)
    /\ UNCHANGED <<traversal, validation, lastQuery>>

Next ==
    \/ UpdateRolesMerge
    \/ UpdateRolesReplace

Spec ==
    Init /\ [][Next]_vars

\* a call of can, canExplain, getAllPermissions or inheritsFrom for roleName
\* enters the traversal
StartTraversal ==
    /\ pc = "idle"
    /\ \E roleName \in RoleNames :
           /\ startRole' = roleName
           /\ travQueue' = <<roleName>>
    /\ pc' = "running"
    /\ travSeen' = {}
    /\ visits' = [r \in RoleNames |-> 0]
    /\ UNCHANGED <<rolesConfig, validation, lastQuery>>

\* the traversal looks at the next role name of its queue
TraversalStep ==
    /\ pc = "running"
    /\ travQueue # <<>>
    /\ \A r \in RoleNames : visits[r] < MaxVisits
    /\ LET step == traverseStep(rolesConfig, travQueue, travSeen)
       IN /\ travQueue' = step.queue
          /\ travSeen' = step.seen
          /\ visits' = [r \in RoleNames |->
                           IF r \in step.visited THEN visits[r] + 1 ELSE visits[r]]
    /\ UNCHANGED <<rolesConfig, pc, startRole, validation, lastQuery>>

\* the queue is empty: the call returns
TraversalReturn ==
    /\ pc = "running"
    /\ travQueue = <<>>
    /\ pc' = "idle"
    /\ startRole' = ""
    /\ travSeen' = {}
    /\ visits' = [r \in RoleNames |-> 0]
    /\ UNCHANGED <<rolesConfig, travQueue, validation, lastQuery>>

NextTraversal ==
    \/ UpdateRolesMerge
    \/ UpdateRolesReplace
    \/ StartTraversal
    \/ TraversalStep
    \/ TraversalReturn

\* a call, once entered, runs on: JavaScript runs it to completion
SpecTraversal ==
    /\ Init
    /\ [][NextTraversal]_vars
    /\ WF_vars(TraversalStep)
    /\ WF_vars(TraversalReturn)

\* the stores of the validator scenario: one role, any role configuration
ValidatorStores ==
    {"admin" :> c : c \in RoleConfigs}

\* a caller holds a validator function whose outcome depends on the caller's
\* own state (a rate limit, the time of day)
InitValidator ==
    /\ rolesConfig \in ValidatorStores
    /\ pc = "idle"
    /\ startRole = ""
    /\ travQueue = <<>>
    /\ travSeen = {}
    /\ visits = [r \in RoleNames |-> 0]
    /\ validatorOutcome \in BOOLEAN
    /\ validatorCalls = 0
    /\ valToken = <<>>
    /\ valOutcomeAtCall = TRUE
    /\ lastQuery = NoQuery

\* the caller's state changes: the validator would now return the opposite
ValidatorChanges ==
    /\ validatorOutcome' = ~validatorOutcome
    /\ UNCHANGED <<rolesConfig, traversal, validatorCalls, valToken,
                   valOutcomeAtCall, lastQuery>>

\* val(action, validator): invokes validator() and builds the token from
\* what it returned
CallVal ==
    /\ validatorCalls < MaxValidatorCalls
    /\ \E action \in {tUpdate, tRead} :
           valToken' = val(action, validatorOutcome)
    /\ validatorCalls' = validatorCalls + 1
    /\ valOutcomeAtCall' = validatorOutcome
    /\ UNCHANGED <<rolesConfig, traversal, validatorOutcome, lastQuery>>

\* can, canExplain or has is called with the token: their arguments are
\* strings, the validator function does not reach them
EngineDecides ==
    /\ valToken # <<>>
    /\ \E roleName \in RoleNames, resource \in Resources :
           /\ can(rolesConfig, roleName, valToken, resource) \in BOOLEAN
           /\ canExplain(rolesConfig, roleName, valToken, resource).granted
                  \in BOOLEAN
           /\ has(rolesConfig, roleName, valToken, resource) \in BOOLEAN
    /\ UNCHANGED vars

NextValidator ==
    \/ ValidatorChanges
    \/ CallVal
    \/ EngineDecides

SpecValidator ==
    InitValidator /\ [][NextValidator]_vars

\* ------------------------------------------------------------- requests

\* action names asked for; "purge" appears in no configuration
RequestActions == {<<"update">>, <<"read">>, <<"purge">>}

RequestQualifiers == {<<"own">>, <<"group">>}

RequestResults == {<<"true">>, <<"false">>}

\* request tokens of every grammar shape:
\* action, action:qualifier, action:qualifier|result, action|result
RequestTokens ==
    RequestActions
    \cup {a \o <<COLON>> \o q : a \in RequestActions, q \in RequestQualifiers}
    \cup {a \o <<COLON>> \o q \o <<PIPE>> \o r :
            a \in RequestActions, q \in RequestQualifiers, r \in RequestResults}
    \cup {a \o <<PIPE>> \o r : a \in RequestActions, r \in RequestResults}

\* the request tokens that carry a qualifier
QualifiedRequestTokens ==
    {tok \in RequestTokens : Truthy(parsePermission(tok), "ownership")}

\* the request tokens without a `|result` part
NoResultTokens ==
    {tok \in RequestTokens : "comparisonResult" \notin DOMAIN parsePermission(tok)}

\* the request tokens whose result is "true"
TrueResultTokens ==
    {tok \in RequestTokens \ NoResultTokens :
        parsePermission(tok).comparisonResult = <<"true">>}

\* the request tokens whose result is "false"
FalseResultTokens ==
    {tok \in RequestTokens \ NoResultTokens :
        parsePermission(tok).comparisonResult = <<"false">>}

\* the tokens that request lists are made of, and the request lists
ListTokens == {tUpdate, tUpdateOwn}

RequestLists ==
    UNION {[1..n -> ListTokens] : n \in 0..MaxListLen}

\* the resolved token list of (role, resource) in the current store
Resolved(roleName, resource) ==
    getAllPermissions(rolesConfig, roleName, resource)

\* ------------------------------------------------------------- queries

\* the stores of the query scenario: admin and editor, each absent or with
\* any role configuration; user is never present, so that parents may be
\* absent, and admin and editor may close a cycle
QueryStores ==
    UNION {[D -> RoleConfigs] : D \in SUBSET {"admin", "editor"}}

InitQueries ==
    /\ rolesConfig \in QueryStores
    /\ pc = "idle"
    /\ startRole = ""
    /\ travQueue = <<>>
    /\ travSeen = {}
    /\ visits = [r \in RoleNames |-> 0]
    /\ validatorOutcome = TRUE
    /\ validatorCalls = 0
    /\ valToken = <<>>
    /\ valOutcomeAtCall = TRUE
    /\ lastQuery = NoQuery

\* what a query leaves alone besides the store
callers == <<traversal, validation>>

\* a can that keeps what it resolved: it stores the resolved list of the
\* role as the role's own list for the resource
QueryCan_StoresResolvedList ==
    /\ lastQuery = NoQuery
    /\ \E roleName \in RoleNames, resource \in Resources,
          permission \in RequestTokens :
           /\ lastQuery' = [op |-> "can", roleName |-> roleName,
                            permission |-> permission, resource |-> resource,
                            result |-> can(rolesConfig, roleName, permission,
                                           resource)]
           /\ rolesConfig' =
                  IF roleName \in DOMAIN rolesConfig
                  THEN [rolesConfig EXCEPT ![roleName].permissions =
                           (resource :> getAllPermissions(rolesConfig,
                                                          roleName, resource))
                               @@ @]
                  ELSE rolesConfig
    /\ UNCHANGED callers

\* rbac.can(roleName, permission, resource)
QueryCan ==
    /\ lastQuery = NoQuery
    /\ \E roleName \in RoleNames, resource \in Resources,
          permission \in RequestTokens :
           lastQuery' = [op |-> "can", roleName |-> roleName,
                         permission |-> permission, resource |-> resource,
                         result |-> can(rolesConfig, roleName, permission,
                                        resource)]
    /\ UNCHANGED <<rolesConfig, callers>>

\* rbac.canExplain(roleName, permission, resource)
QueryCanExplain ==
    /\ lastQuery = NoQuery
    /\ \E roleName \in RoleNames, resource \in Resources,
          permission \in RequestTokens :
           lastQuery' = [op |-> "canExplain", roleName |-> roleName,
                         permission |-> permission, resource |-> resource,
                         result |-> canExplain(rolesConfig, roleName,
                                               permission, resource)]
    /\ UNCHANGED <<rolesConfig, callers>>

\* rbac.has(roleName, permission, resource)
QueryHas ==
    /\ lastQuery = NoQuery
    /\ \E roleName \in RoleNames, resource \in Resources,
          permission \in RequestTokens :
           lastQuery' = [op |-> "has", roleName |-> roleName,
                         permission |-> permission, resource |-> resource,
                         result |-> has(rolesConfig, roleName, permission,
                                        resource)]
    /\ UNCHANGED <<rolesConfig, callers>>

\* rbac.hasWildcardPermission(roleName, resource)
QueryHasWildcardPermission ==
    /\ lastQuery = NoQuery
    /\ \E roleName \in RoleNames, resource \in Resources :
           lastQuery' = [op |-> "hasWildcardPermission",
                         roleName |-> roleName, resource |-> resource,
                         result |-> hasWildcardPermission(rolesConfig,
                                                          roleName, resource)]
    /\ UNCHANGED <<rolesConfig, callers>>

\* rbac.getAllPermissions(roleName, resource)
QueryGetAllPermissions ==
    /\ lastQuery = NoQuery
    /\ \E roleName \in RoleNames, resource \in Resources :
           lastQuery' = [op |-> "getAllPermissions",
                         roleName |-> roleName, resource |-> resource,
                         result |-> getAllPermissions(rolesConfig, roleName,
                                                      resource)]
    /\ UNCHANGED <<rolesConfig, callers>>

\* rbac.getRoles()
QueryGetRoles ==
    /\ lastQuery = NoQuery
    /\ lastQuery' = [op |-> "getRoles", result |-> getRoles(rolesConfig)]
    /\ UNCHANGED <<rolesConfig, callers>>

\* rbac.getName(roleName)
QueryGetName ==
    /\ lastQuery = NoQuery
    /\ \E roleName \in RoleNames :
           lastQuery' = [op |-> "getName", roleName |-> roleName,
                         result |-> getName(rolesConfig, roleName)]
    /\ UNCHANGED <<rolesConfig, callers>>

\* rbac.getParentRoles(roleName)
QueryGetParentRoles ==
    /\ lastQuery = NoQuery
    /\ \E roleName \in RoleNames :
           lastQuery' = [op |-> "getParentRoles", roleName |-> roleName,
                         result |-> getParentRoles(rolesConfig, roleName)]
    /\ UNCHANGED <<rolesConfig, callers>>

\* rbac.inheritsFrom(roleName, parentRole)
QueryInheritsFrom ==
    /\ lastQuery = NoQuery
    /\ \E roleName \in RoleNames, parentRole \in RoleNames :
           lastQuery' = [op |-> "inheritsFrom", roleName |-> roleName,
                         parentRole |-> parentRole,
                         result |-> inheritsFrom(rolesConfig, roleName,
                                                 parentRole)]
    /\ UNCHANGED <<rolesConfig, callers>>

\* the caller has taken the result
QueryReturns ==
    /\ lastQuery # NoQuery
    /\ lastQuery' = NoQuery
    /\ UNCHANGED <<rolesConfig, callers>>

NextQueries ==
    \/ QueryCan
    \/ QueryCanExplain
    \/ QueryHas
    \/ QueryHasWildcardPermission
    \/ QueryGetAllPermissions
    \/ QueryGetRoles
    \/ QueryGetName
    \/ QueryGetParentRoles
    \/ QueryInheritsFrom
    \/ QueryReturns

SpecQueries ==
    InitQueries /\ [][NextQueries]_vars

\* --------------------------------------------------------------- codec

\* the strings handed to the codec: any sequence of a word and the two
\* separators, the empty string included
CodecStrings ==
    UNION {[1..n -> {"a", COLON, PIPE}] : n \in 0..MaxTokenLen}

InitCodec ==
    /\ rolesConfig = <<>>
    /\ pc = "idle"
    /\ startRole = ""
    /\ travQueue = <<>>
    /\ travSeen = {}
    /\ visits = [r \in RoleNames |-> 0]
    /\ validatorOutcome = TRUE
    /\ validatorCalls = 0
    /\ valToken = <<>>
    /\ valOutcomeAtCall = TRUE
    /\ lastQuery = NoQuery

\* this.parsePermission(permission), as can and canExplain call it
CallParsePermission ==
    /\ lastQuery = NoQuery
    /\ \E permission \in CodecStrings :
           lastQuery' = [op |-> "parsePermission", permission |-> permission,
                         result |-> parsePermission(permission)]
    /\ UNCHANGED <<rolesConfig, callers>>

\* own(action, userId, resourceOwnerId), and the parse of the token it built
CallOwn ==
    /\ lastQuery = NoQuery
    /\ \E action \in CodecStrings, userId \in UserIds,
          resourceOwnerId \in UserIds :
           LET permission == own(action, userId, resourceOwnerId)
           IN lastQuery' = [op |-> "own", action |-> action,
                            permission |-> permission,
                            result |-> parsePermission(permission)]
    /\ UNCHANGED <<rolesConfig, callers>>

NextCodec ==
    \/ CallParsePermission
    \/ CallOwn
    \/ QueryReturns

SpecCodec ==
    InitCodec /\ [][NextCodec]_vars

\* --------------------------------------------------------------- claims

\* C1: in every reachable store, for every role name, resource and request
\* token of any grammar shape, explain(...).granted equals can(...).
C1_ExplainAgreesWithCan ==
    \A roleName \in RoleNames, resource \in Resources, tok \in RequestTokens :
        explainSinglePermission(rolesConfig, roleName, tok, resource).granted
            = can(rolesConfig, roleName, tok, resource)

\* C2 as stated: whenever the resolved token list holds the bare `update`,
\* whatever else it holds, can(role, own("update", a, b), resource) is true
\* for all a and b.
C2_GeneralitySubsumption ==
    \A roleName \in RoleNames, resource \in Resources :
        includes(Resolved(roleName, resource), tUpdate)
        => \A a \in UserIds, b \in UserIds :
               can(rolesConfig, roleName, own(tUpdate, a, b), resource)

\* C2 amended: whenever the resolved token list holds the bare `update` and
\* does not hold `*`, can(role, own("update", a, b), resource) is true for
\* all a and b, including a # b.
C2_GeneralitySubsumptionNoWildcard ==
    \A roleName \in RoleNames, resource \in Resources :
        /\ includes(Resolved(roleName, resource), tUpdate)
        /\ ~includes(Resolved(roleName, resource), WILDCARD_PERMISSION)
        => \A a \in UserIds, b \in UserIds :
               can(rolesConfig, roleName, own(tUpdate, a, b), resource)

C2_Witness ==
    \E roleName \in RoleNames, resource \in Resources :
        /\ includes(Resolved(roleName, resource), tUpdate)
        /\ includes(Resolved(roleName, resource), tUpdateOwn)
        /\ ~includes(Resolved(roleName, resource), WILDCARD_PERMISSION)
        /\ can(rolesConfig, roleName, own(tUpdate, 1, 2), resource)

\* C3: when the resolved token list holds `update:own` and neither the bare
\* `update` nor `*`, can(role, own("update", x, y), resource) equals (x = y);
\* own("update", x, y) is `update:own|true` iff x = y, else `update:own|false`.
C3_OwnershipCorrectness ==
    /\ \A x \in UserIds, y \in UserIds :
           own(tUpdate, x, y) =
               IF x = y
               THEN <<"update", ":", "own", "|", "true">>
               ELSE <<"update", ":", "own", "|", "false">>
    /\ \A roleName \in RoleNames, resource \in Resources :
           /\ includes(Resolved(roleName, resource), tUpdateOwn)
           /\ ~includes(Resolved(roleName, resource), tUpdate)
           /\ ~includes(Resolved(roleName, resource), WILDCARD_PERMISSION)
           => \A x \in UserIds, y \in UserIds :
                  can(rolesConfig, roleName, own(tUpdate, x, y), resource)
                      = (x = y)

C3_Witness ==
    \E roleName \in RoleNames, resource \in Resources :
        /\ includes(Resolved(roleName, resource), tUpdateOwn)
        /\ ~includes(Resolved(roleName, resource), tUpdate)
        /\ ~includes(Resolved(roleName, resource), WILDCARD_PERMISSION)
        /\ can(rolesConfig, roleName, own(tUpdate, 1, 1), resource)
        /\ ~can(rolesConfig, roleName, own(tUpdate, 1, 2), resource)

\* C4: when the resolved token list holds `*` and the request carries a
\* qualifier, can grants iff the request carries no result or its result is
\* "true", and denies a result "false", also when the bare action is granted.
C4_WildcardQualifiedRequest ==
    \A roleName \in RoleNames, resource \in Resources :
        includes(Resolved(roleName, resource), WILDCARD_PERMISSION)
        => \A tok \in QualifiedRequestTokens :
               can(rolesConfig, roleName, tok, resource)
                   = (tok \in NoResultTokens \cup TrueResultTokens)

C4_Witness ==
    \E roleName \in RoleNames, resource \in Resources :
        /\ includes(Resolved(roleName, resource), WILDCARD_PERMISSION)
        /\ includes(Resolved(roleName, resource), tUpdate)
        /\ ~can(rolesConfig, roleName, own(tUpdate, 1, 2), resource)
        /\ can(rolesConfig, roleName, own(tUpdate, 1, 1), resource)
        /\ can(rolesConfig, roleName, tUpdateOwn, resource)

Isolate(cfg, roleName, resource) ==
    LET keep == reachableRoles(cfg, <<roleName>>, {}) \cap DOMAIN cfg
    IN [r \in keep |->
           [cfg[r] EXCEPT !.permissions =
               [res \in (DOMAIN cfg[r].permissions) \cap {resource} |->
                   cfg[r].permissions[res]]]]

\* C6: can(role, token, resource) reads only the tokens listed under that
\* resource in the role and the roles reachable from it: the decision is the
\* same in the store cut down to those, whatever other resources and other
\* roles hold; and with an empty resolved token list every request is denied.
C6_ResourceIsolation ==
    \A roleName \in RoleNames, resource \in Resources :
        LET isolated == Isolate(rolesConfig, roleName, resource)
            empty == (Resolved(roleName, resource) = <<>>)
        IN \A tok \in RequestTokens :
               LET granted == can(rolesConfig, roleName, tok, resource)
               IN /\ granted = can(isolated, roleName, tok, resource)
                  /\ empty => ~granted

C6_Witness ==
    \E roleName \in DOMAIN rolesConfig :
        /\ includes(Resolved(roleName, "users"), WILDCARD_PERMISSION)
        /\ Resolved(roleName, "posts") = <<>>
        /\ ~can(rolesConfig, roleName, <<"purge">>, "posts")
        /\ can(rolesConfig, roleName, <<"purge">>, "users")
        /\ \E other \in DOMAIN rolesConfig :
               /\ other \notin reachableRoles(rolesConfig, <<roleName>>, {})
               /\ includes(getRolePermissions(rolesConfig, other, "posts"),
                           WILDCARD_PERMISSION)

HoldsUnqualified(permissions, action) ==
    \E i \in 1..Len(permissions) :
        /\ parsePermission(permissions[i]).action = action
        /\ ~Truthy(parsePermission(permissions[i]), "ownership")

\* a token of the list parses to `action` with the qualifier `qualifier`
HoldsQualified(permissions, action, qualifier) ==
    \E i \in 1..Len(permissions) :
        /\ parsePermission(permissions[i]).action = action
        /\ Truthy(parsePermission(permissions[i]), "ownership")
        /\ parsePermission(permissions[i]).ownership = qualifier

OwnUpdateRequests ==
    {tok \in QualifiedRequestTokens :
        /\ parsePermission(tok).action = tUpdate
        /\ parsePermission(tok).ownership = <<"own">>}

\* C8: when the resolved token list holds `update:own`, the request
\* `update:own` (qualifier, no result) is granted, and a request for
\* update with the qualifier own is denied only if it carries `|false`.
C8_DefaultTrueQualifier ==
    \A roleName \in RoleNames, resource \in Resources :
        includes(Resolved(roleName, resource), tUpdateOwn)
        => /\ can(rolesConfig, roleName, tUpdateOwn, resource)
           /\ \A tok \in OwnUpdateRequests :
                  ~can(rolesConfig, roleName, tok, resource)
                  => tok \in FalseResultTokens

C8_Witness ==
    \E roleName \in RoleNames, resource \in Resources :
        /\ Resolved(roleName, resource) = <<tUpdateOwn>>
        /\ can(rolesConfig, roleName, tUpdateOwn, resource)
        /\ ~can(rolesConfig, roleName, tUpdateOwn \o <<PIPE, "false">>, resource)

\* C9: when the resolved token list has no `*` and holds the action only in
\* qualified forms, the unqualified request is denied by can, and explain
\* returns granted false with the reason REQUIRES_OWNERSHIP.
C9_QualifiedGrantNeverSatisfiesUnqualified ==
    \A roleName \in RoleNames, resource \in Resources, act \in RequestActions :
        /\ ~includes(Resolved(roleName, resource), WILDCARD_PERMISSION)
        /\ ~HoldsUnqualified(Resolved(roleName, resource), act)
        /\ \E q \in RequestQualifiers :
               HoldsQualified(Resolved(roleName, resource), act, q)
        => /\ ~can(rolesConfig, roleName, act, resource)
           /\ ~explainSinglePermission(rolesConfig, roleName, act, resource).granted
           /\ explainSinglePermission(rolesConfig, roleName, act, resource).reason
                  = "REQUIRES_OWNERSHIP"

C9_Witness ==
    \E roleName \in RoleNames, resource \in Resources :
        /\ includes(Resolved(roleName, resource), tUpdateOwn)
        /\ includes(Resolved(roleName, resource), tRead)
        /\ ~includes(Resolved(roleName, resource), tUpdate)
        /\ ~can(rolesConfig, roleName, tUpdate, resource)
        /\ explainSinglePermission(rolesConfig, roleName, tUpdate, resource).reason
               = "REQUIRES_OWNERSHIP"

FailedQualifierTokens ==
    QualifiedRequestTokens \ (NoResultTokens \cup TrueResultTokens)

C11_TraversalTerminates ==
    /\ [](\A r \in RoleNames : visits[r] <= 1)
    /\ [](pc = "running" /\ travQueue = <<>>
            => travSeen = reachableRoles(rolesConfig, <<startRole>>, {}))
    /\ (pc = "running") ~> (pc = "idle")

\* a traversal inside a cycle: it is back at the role it started from
C11_Witness ==
    /\ pc = "running"
    /\ travQueue # <<>>
    /\ Head(travQueue) = startRole
    /\ startRole \in travSeen
    /\ Cardinality(travSeen) >= 2

\* the elements of a list
Elements(list) ==
    {list[i] : i \in 1..Len(list)}

\* the role names reachable from the names in S over zero or more parent
\* edges: the least set that holds S and the parents of each of its members
RECURSIVE ParentClosure(_, _)
ParentClosure(cfg, S) ==
    LET next == S \cup UNION {Elements(getParentRoles(cfg, r)) : r \in S}
    IN IF next = S THEN S ELSE ParentClosure(cfg, next)

\* C12: getAllPermissions(role, resource) holds exactly the tokens that the
\* roles reachable from `role` over zero or more parent edges list directly
\* under the resource (absent roles list nothing), each token once, also over
\* diamonds and cycles.
C12_ResolvedIsUnionOfReachable ==
    \A roleName \in RoleNames, resource \in Resources :
        LET T == Resolved(roleName, resource)
        IN /\ Elements(T) =
                  UNION {Elements(getRolePermissions(rolesConfig, r, resource)) :
                            r \in ParentClosure(rolesConfig, {roleName})}
           /\ Cardinality(Elements(T)) = Len(T)

\* a role that reaches the same token over two different roles, one of them
\* reaching back to it (a cycle), and that resolves to two tokens or more
C12_Witness ==
    \E roleName \in DOMAIN rolesConfig, resource \in Resources :
        /\ Len(Resolved(roleName, resource)) >= 2
        /\ \E r1 \in ParentClosure(rolesConfig, {roleName}) :
           \E r2 \in ParentClosure(rolesConfig, {roleName}) \ {r1} :
               /\ roleName \in ParentClosure(rolesConfig, {r2}) \ {r2}
               /\ Elements(getRolePermissions(rolesConfig, r1, resource))
                      \cap Elements(getRolePermissions(rolesConfig, r2, resource))
                          # {}

\* C13: inheritsFrom(a, b) is true iff a and b are roles of the store and b
\* is reachable from a over zero or more parent edges; so it is reflexive for
\* present roles, false when a or b is absent (also for a = b, and for an
\* absent b that a names as a parent), and false against the direction of
\* inheritance unless the two roles lie on a cycle.
C13_InheritsFromIffReachable ==
    \A a \in RoleNames, b \in RoleNames :
        LET present == a \in DOMAIN rolesConfig /\ b \in DOMAIN rolesConfig
            answer == inheritsFrom(rolesConfig, a, b)
        IN /\ answer = (present /\ b \in ParentClosure(rolesConfig, {a}))
           /\ (a = b) => (answer = present)
           /\ ~present => ~answer
           /\ (present /\ answer /\ a \notin ParentClosure(rolesConfig, {b}))
                  => ~inheritsFrom(rolesConfig, b, a)

\* two roles on a mutual cycle inherit from each other, and one of them names
\* a parent that is not a role of the store
C13_Witness ==
    \E a \in DOMAIN rolesConfig, b \in DOMAIN rolesConfig :
        /\ a # b
        /\ inheritsFrom(rolesConfig, a, b)
        /\ inheritsFrom(rolesConfig, b, a)
        /\ \E x \in Elements(getParentRoles(rolesConfig, a)) :
               /\ x \notin DOMAIN rolesConfig
               /\ ~inheritsFrom(rolesConfig, a, x)
               /\ ~inheritsFrom(rolesConfig, x, x)

\* the direct token set of a role for a resource
TokenSet(cfg, roleName, resource) ==
    Elements(getRolePermissions(cfg, roleName, resource))

\* C14: after updateRoles(partialConfig) with merge, for every role present
\* both before the call and in partialConfig and for every resource, the
\* role's token set is the union of its token set before the call and the
\* supplied one, without duplicates (so resources only the old configuration
\* has keep their tokens).
C14_MergeUnionsTokenLists ==
    \A newRoles \in PartialConfigs :
        LET after == updateRoles(rolesConfig, newRoles, TRUE)
        IN \A r \in DOMAIN newRoles \cap DOMAIN rolesConfig :
           \A resource \in Resources :
               /\ TokenSet(after, r, resource) =
                      TokenSet(rolesConfig, r, resource)
                          \cup TokenSet(newRoles, r, resource)
               /\ Len(getRolePermissions(after, r, resource)) =
                      Cardinality(TokenSet(after, r, resource))

\* a role configuration sets a (non-empty) display name
HasName(roleConfig) ==
    "name" \in DOMAIN roleConfig /\ roleConfig.name # ""

\* C15: after updateRoles(partialConfig) with merge, an existing role that
\* has a display name and for which partialConfig supplies none keeps it
\* (getName unchanged); when partialConfig supplies a name, getName returns
\* the supplied one.
C15_MergePreservesName ==
    \A newRoles \in PartialConfigs :
        LET after == updateRoles(rolesConfig, newRoles, TRUE)
        IN \A r \in DOMAIN newRoles \cap DOMAIN rolesConfig :
               /\ (HasName(rolesConfig[r]) /\ ~HasName(newRoles[r]))
                      => getName(after, r) = getName(rolesConfig, r)
               /\ HasName(newRoles[r]) => getName(after, r) = newRoles[r].name

\* C16: after updateRoles(partialConfig) with merge, an existing role for
\* which partialConfig supplies no parent list keeps its parent list, and one
\* for which it supplies a list has exactly the supplied list.
C16_MergeKeepsOrReplacesParents ==
    \A newRoles \in PartialConfigs :
        LET after == updateRoles(rolesConfig, newRoles, TRUE)
        IN \A r \in DOMAIN newRoles \cap DOMAIN rolesConfig :
               getParentRoles(after, r) =
                   IF "inherits" \in DOMAIN newRoles[r]
                   THEN newRoles[r].inherits
                   ELSE getParentRoles(rolesConfig, r)

\* the resolved token sets of every role and resource of a store
ResolvedSets(cfg) ==
    [r \in RoleNames, resource \in Resources |->
        Elements(getAllPermissions(cfg, r, resource))]

\* C17: applying updateRoles(partialConfig) with merge twice gives, for every
\* role and resource, the same resolved token set as applying it once.
C17_MergeIdempotentOnResolvedSets ==
    \A newRoles \in PartialConfigs :
        LET once == updateRoles(rolesConfig, newRoles, TRUE)
            twice == updateRoles(once, newRoles, TRUE)
        IN ResolvedSets(twice) = ResolvedSets(once)

\* an update that changes what a role other than the updated one resolves to
C17_Witness ==
    \E newRoles \in PartialConfigs :
        LET once == updateRoles(rolesConfig, newRoles, TRUE)
        IN /\ DOMAIN newRoles \subseteq DOMAIN rolesConfig
           /\ \E r \in DOMAIN rolesConfig \ DOMAIN newRoles, resource \in Resources :
                  /\ ResolvedSets(once)[r, resource]
                         # ResolvedSets(rolesConfig)[r, resource]
                  /\ ResolvedSets(once)[r, resource] # {}
           /\ ResolvedSets(updateRoles(once, newRoles, TRUE)) = ResolvedSets(once)

\* the names a caller may ask about that are no role of the store
AbsentRoleNames ==
    (RoleNames \cup PrototypeNames) \ DOMAIN rolesConfig

\* C18: for a role name absent from the store no call raises: can returns
\* false for every token and resource, getName returns the role name,
\* getParentRoles and getAllPermissions return the empty list and
\* inheritsFrom returns false; for a present role and a resource with an
\* empty resolved token list, can returns false.
C18_AbsentNeverRaises ==
    /\ \A roleName \in AbsentRoleNames, resource \in Resources :
           /\ ~getRolePermissionsRaises(rolesConfig, roleName, resource)
           /\ getName(rolesConfig, roleName) = roleName
           /\ getParentRoles(rolesConfig, roleName) = <<>>
           /\ getAllPermissions(rolesConfig, roleName, resource) = <<>>
           /\ \A other \in RoleNames \cup {roleName} :
                  ~inheritsFrom(rolesConfig, roleName, other)
           /\ \A tok \in RequestTokens :
                  ~can(rolesConfig, roleName, tok, resource)
    /\ \A roleName \in DOMAIN rolesConfig, resource \in Resources :
           Resolved(roleName, resource) = <<>>
           => \A tok \in RequestTokens :
                  ~can(rolesConfig, roleName, tok, resource)

\* C19: can on a list of tokens is true iff can is true for at least one
\* element of the list; on the empty list it is false.
C19_CanOnListIsOr ==
    \A roleName \in RoleNames, resource \in Resources :
        LET granted == [tok \in ListTokens |->
                           can(rolesConfig, roleName, tok, resource)]
        IN /\ ~canAny(rolesConfig, roleName, <<>>, resource)
           /\ \A list \in RequestLists :
                  canAny(rolesConfig, roleName, list, resource)
                      = \E i \in 1..Len(list) : granted[list[i]]

\* a list whose first token is denied and whose second is granted
C19_Witness ==
    \E roleName \in RoleNames, resource \in Resources, list \in RequestLists :
        /\ Len(list) >= 2
        /\ ~can(rolesConfig, roleName, list[1], resource)
        /\ can(rolesConfig, roleName, list[2], resource)
        /\ canAny(rolesConfig, roleName, list, resource)

\* C20: canExplain on a list returns one explanation per token, in the order
\* of the list: the result is as long as the list and its i-th element is the
\* explanation of the i-th token, also after a granted one.
C20_ExplainOnListIsMap ==
    \A roleName \in RoleNames, resource \in Resources :
        LET single == [tok \in ListTokens |->
                          canExplain(rolesConfig, roleName, tok, resource)]
        IN \A list \in RequestLists :
               LET all == canExplainAll(rolesConfig, roleName, list, resource)
               IN /\ Len(all) = Len(list)
                  /\ \A i \in 1..Len(list) : all[i] = single[list[i]]

\* a list whose first token is granted and whose second is denied: both are
\* explained
C20_Witness ==
    \E roleName \in RoleNames, resource \in Resources, list \in RequestLists :
        LET all == canExplainAll(rolesConfig, roleName, list, resource)
        IN /\ Len(list) >= 2
           /\ Len(all) = Len(list)
           /\ all[1].granted
           /\ ~all[2].granted
           /\ all[2].reason = "REQUIRES_OWNERSHIP"

\* the patterns asked of has: request tokens without a result
Patterns ==
    NoResultTokens

\* C21: has(role, pattern, resource) is true when the resolved token list
\* holds `*`; for a qualified pattern action:q it is true when the list holds
\* the bare action or the exact action:q; for an unqualified pattern it is
\* true only when the list holds the bare action or `*`, hence false when the
\* list holds the action only with a qualifier.
C21_HasIsPatternCheck ==
    \A roleName \in RoleNames, resource \in Resources :
        LET T == Resolved(roleName, resource)
            wildcard == includes(T, WILDCARD_PERMISSION)
        IN \A pattern \in Patterns :
               LET answer == has(rolesConfig, roleName, pattern, resource)
                   action == parsePermission(pattern).action
               IN /\ wildcard => answer
                  /\ pattern \in QualifiedRequestTokens
                         => ((includes(T, action) \/ includes(T, pattern))
                                => answer)
                  /\ pattern \notin QualifiedRequestTokens
                         => (answer <=> (includes(T, action) \/ wildcard))

\* a role with update:own only has the pattern update:own and not update;
\* another role, holding `*` through a parent, has a pattern for an action no
\* configuration names
C21_Witness ==
    /\ \E roleName \in RoleNames, resource \in Resources :
           /\ Resolved(roleName, resource) = <<tUpdateOwn>>
           /\ has(rolesConfig, roleName, tUpdateOwn, resource)
           /\ ~has(rolesConfig, roleName, tUpdate, resource)
           /\ ~has(rolesConfig, roleName, tUpdateGroup, resource)
    /\ \E roleName \in RoleNames, resource \in Resources :
           /\ ~includes(getRolePermissions(rolesConfig, roleName, resource),
                        WILDCARD_PERMISSION)
           /\ has(rolesConfig, roleName, <<"purge", COLON, "own">>, resource)

\* C22: a call of val invokes the validator once, at the call, and the token
\* carries what it returned then; a decision on the token invokes no
\* validator, and on a store that decides by the result (one holding `*`)
\* can on the token gives the outcome of the time of the call, also after
\* the validator's outcome has changed.
C22_ValIsEager ==
    /\ [](valToken # <<>> =>
            /\ Truthy(parsePermission(valToken), "ownership")
            /\ "comparisonResult" \in DOMAIN parsePermission(valToken)
            /\ parsePermission(valToken).comparisonResult
                   = boolStr(valOutcomeAtCall)
            /\ \A roleName \in RoleNames, resource \in Resources :
                   includes(Resolved(roleName, resource), WILDCARD_PERMISSION)
                   => can(rolesConfig, roleName, valToken, resource)
                          = valOutcomeAtCall)
    /\ [][/\ CallVal => /\ validatorCalls' = validatorCalls + 1
                        /\ valOutcomeAtCall' = validatorOutcome
          /\ EngineDecides => validatorCalls' = validatorCalls
          /\ validatorCalls' # validatorCalls => valToken' # <<>>]_vars

\* the validator's outcome has changed since the token was built, and the
\* decision still follows the token
C22_Witness ==
    /\ valToken # <<>>
    /\ validatorCalls = 1
    /\ validatorOutcome # valOutcomeAtCall
    /\ ~valOutcomeAtCall
    /\ includes(Resolved("admin", "posts"), WILDCARD_PERMISSION)
    /\ ~can(rolesConfig, "admin", valToken, "posts")

\* the qualifiers with which a token list grants an action
GrantQualifiers(permissions, action) ==
    {parsePermission(permissions[i]).ownership :
        i \in {j \in 1..Len(permissions) :
                 /\ parsePermission(permissions[j]).action = action
                 /\ Truthy(parsePermission(permissions[j]), "ownership")}}

\* the qualifiers of a passing request: own, group, val
PassingQualifiers == {<<"own">>, <<"group">>, <<"val">>}

\* C23: when the resolved list of (role, resource) holds no `*` and no bare
\* action, and holds the action with exactly one qualifier q1, can denies
\* the request action:q2|true for every q2 other than q1.
C23_QualifierMismatchDenied ==
    \A roleName \in RoleNames, resource \in Resources :
        LET T == Resolved(roleName, resource)
        IN ~includes(T, WILDCARD_PERMISSION) =>
           \A action \in RequestActions :
               LET qs == GrantQualifiers(T, action)
               IN (~includes(T, action) /\ Cardinality(qs) = 1) =>
                  \A q2 \in PassingQualifiers \ qs :
                      ~can(rolesConfig, roleName,
                           action \o <<COLON>> \o q2 \o <<PIPE, "true">>,
                           resource)

\* a role holds update only as update:own, and the passing group request is
\* denied while the passing own request is granted
C23_Witness ==
    LET T == Resolved("admin", "posts")
    IN /\ ~includes(T, WILDCARD_PERMISSION)
       /\ ~includes(T, tUpdate)
       /\ GrantQualifiers(T, tUpdate) = {<<"own">>}
       /\ ~can(rolesConfig, "admin", group(tUpdate, 1, {1}), "posts")
       /\ can(rolesConfig, "admin", own(tUpdate, 1, 1), "posts")

\* the reason codes that the description of explain lists
ListedReasons ==
    {"ROLE_NOT_FOUND", "RESOURCE_NOT_ALLOWED", "WILDCARD_PERMISSION",
     "WILDCARD_WITH_OWNERSHIP", "OWNERSHIP_CHECK_FAILED",
     "GENERIC_PERMISSION_WITH_OWNERSHIP", "REQUIRES_OWNERSHIP",
     "ACTION_NOT_ALLOWED", "PERMISSION_WITH_OWNERSHIP",
     "PERMISSION_WITH_OWNERSHIP_DEFAULT", "PERMISSION_GRANTED"}

\* C24 as stated: every explanation carries one of the eleven listed reason
\* codes, for every role, resource and token.
C24_ReasonIsListed ==
    lastQuery.op = "canExplain" => lastQuery.result.reason \in ListedReasons

\* C24: every explanation carries one of the eleven listed reason codes or
\* WILDCARD_WITH_OWNERSHIP_DEFAULT, and it carries the latter exactly when
\* the role is present, its resolved list holds `*`, and the token has a
\* qualifier but no result.
C24_ReasonIsListedOrWildcardDefault ==
    lastQuery.op = "canExplain" =>
        LET reason == lastQuery.result.reason
        IN /\ reason \in ListedReasons \cup {"WILDCARD_WITH_OWNERSHIP_DEFAULT"}
           /\ reason = "WILDCARD_WITH_OWNERSHIP_DEFAULT"
                  <=> /\ lastQuery.roleName \in DOMAIN rolesConfig
                      /\ includes(Resolved(lastQuery.roleName,
                                           lastQuery.resource),
                                  WILDCARD_PERMISSION)
                      /\ lastQuery.permission \in QualifiedRequestTokens
                      /\ lastQuery.permission \in NoResultTokens

\* a role holding `*` is asked for update:own, and the explanation grants
\* with the reason that the list omits
C24_Witness ==
    /\ lastQuery.op = "canExplain"
    /\ lastQuery.permission = tUpdateOwn
    /\ includes(Resolved(lastQuery.roleName, lastQuery.resource),
                WILDCARD_PERMISSION)
    /\ lastQuery.result.granted
    /\ lastQuery.result.reason = "WILDCARD_WITH_OWNERSHIP_DEFAULT"

C26_FieldsEchoParsedRequest ==
    lastQuery.op = "canExplain" =>
        LET parsed == parsePermission(lastQuery.permission)
            e == lastQuery.result
        IN /\ e.role = lastQuery.roleName
           /\ e.resource = lastQuery.resource
           /\ e.action = parsed.action
           /\ Truthy(parsed, "ownership")
                  => /\ "ownership" \in DOMAIN e
                     /\ e.ownership = parsed.ownership

\* the part of a string before its first separator, and the part after it
beforeFirst(s, sep) ==
    IF includes(s, sep) THEN SubSeq(s, 1, indexOf(s, sep) - 1) ELSE s

afterFirst(s, sep) ==
    SubSeq(s, indexOf(s, sep) + 1, Len(s))

\* the number of separators in a string
count(s, sep) ==
    Cardinality({i \in 1..Len(s) : s[i] = sep})

\* C27: for every string (with at most one `|`), the parse has the part
\* before `|` split at its first `:` only: the action is what precedes the
\* first `:`, the qualifier is everything after it, the result is what
\* follows `|`; a string with neither separator yields only an action; and
\* for every action string the parse of own(action, x, y) yields that
\* action, the qualifier own and the result "true" or "false".
C27_ParseFollowsSplitRules ==
    /\ (lastQuery.op = "parsePermission"
           /\ count(lastQuery.permission, PIPE) <= 1) =>
          LET permission == lastQuery.permission
              parsed == lastQuery.result
              left == beforeFirst(permission, PIPE)
          IN /\ parsed.action = beforeFirst(left, COLON)
             /\ "ownership" \in DOMAIN parsed <=> includes(left, COLON)
             /\ includes(left, COLON)
                    => parsed.ownership = afterFirst(left, COLON)
             /\ "comparisonResult" \in DOMAIN parsed
                    <=> includes(permission, PIPE)
             /\ includes(permission, PIPE)
                    => parsed.comparisonResult = afterFirst(permission, PIPE)
             /\ (~includes(permission, COLON) /\ ~includes(permission, PIPE))
                    => parsed = [action |-> permission]
    /\ lastQuery.op = "own" =>
          /\ lastQuery.result.action = lastQuery.action
          /\ "ownership" \in DOMAIN lastQuery.result
          /\ lastQuery.result.ownership = <<"own">>
          /\ "comparisonResult" \in DOMAIN lastQuery.result
          /\ lastQuery.result.comparisonResult \in {<<"true">>, <<"false">>}

\* the partial configurations that supply no parent list
PartialConfigsWithoutParents ==
    {newRoles \in PartialConfigs :
        \A r \in DOMAIN newRoles : "inherits" \notin DOMAIN newRoles[r]}

\* C28: for every store, every partialConfig that supplies no parent list,
\* and every role, token and resource for which can is true before
\* updateRoles(partialConfig) with merge, can is still true after the call.
C28_MergeNeverRevokes ==
    \A newRoles \in PartialConfigsWithoutParents :
        LET after == updateRoles(rolesConfig, newRoles, TRUE)
        IN \A roleName \in RoleNames, resource \in Resources,
              tok \in RequestTokens :
               can(rolesConfig, roleName, tok, resource)
                   => can(after, roleName, tok, resource)

sameQuery(cfg, q) ==
    CASE q.op = "can" -> can(cfg, q.roleName, q.permission, q.resource)
      [] q.op = "canExplain" ->
             canExplain(cfg, q.roleName, q.permission, q.resource)
      [] q.op = "has" -> has(cfg, q.roleName, q.permission, q.resource)
      [] q.op = "hasWildcardPermission" ->
             hasWildcardPermission(cfg, q.roleName, q.resource)
      [] q.op = "getAllPermissions" ->
             getAllPermissions(cfg, q.roleName, q.resource)
      [] q.op = "getRoles" -> getRoles(cfg)
      [] q.op = "getName" -> getName(cfg, q.roleName)
      [] q.op = "getParentRoles" -> getParentRoles(cfg, q.roleName)
      [] q.op = "inheritsFrom" ->
             inheritsFrom(cfg, q.roleName, q.parentRole)

\* C30: can, canExplain, has, hasWildcardPermission, getRoles, getName,
\* getParentRoles, inheritsFrom and getAllPermissions leave the store as it
\* was, for every input (absent roles and cyclic graphs included), so the
\* same query asked again, with no updateRoles in between, returns what the
\* first one returned.
C30_QueriesAreReadOnly ==
    /\ [][rolesConfig' = rolesConfig]_vars
    /\ [](lastQuery # NoQuery
             => sameQuery(rolesConfig, lastQuery) = lastQuery.result)

\* admin and editor inherit from each other, and a can for a role that is
\* absent has returned
C30_Witness ==
    /\ DOMAIN rolesConfig = {"admin", "editor"}
    /\ inheritsFrom(rolesConfig, "admin", "editor")
    /\ inheritsFrom(rolesConfig, "editor", "admin")
    /\ lastQuery.op = "can"
    /\ lastQuery.roleName = "user"
    /\ lastQuery.result = FALSE

====
